---- MODULE Spec2Model ----
(***************************************************************************)
(* A model of the reflect-journal backend: the journal_entries and         *)
(* emotion_history tables, the request handlers that read and write them,  *)
(* and the SQLAlchemy session (unit of work) through which                 *)
(* update_entry_emotions writes.                                           *)
(*                                                                         *)
(* Optional (nullable) values are sequences of length 0 or 1: None is      *)
(* the empty sequence, Some(x) the one-element sequence.  Text is a        *)
(* sequence of chunks; a chunk is either a whitespace character or a run   *)
(* of letters (a keyword such as "happy" or a filler such as "un"), so a   *)
(* word contains a keyword exactly when one of its chunks is that keyword. *)
(* Sentiment scores are integers: hundredths.                              *)
(***************************************************************************)
EXTENDS Integers, Sequences, FiniteSets, TLC

VARIABLES
    db,        \* the database: [entries, history, nextId]
    sess,      \* per worker: the request being served by update_entry_emotions and its session
    okCalls,   \* per user: number of update_entry_emotions calls that committed
    shadow,    \* the database of the run without user 1's requests (IsoSpec)
    call       \* the last call of an analytics function: its arguments and its result

vars == <<db, sess, okCalls, shadow, call>>

-----------------------------------------------------------------------------
(* Bounds of the model. *)

MaxEntries == 2     \* ids the journal_entries sequence hands out
MaxHistory == 1     \* rows of emotion_history when each request is served in one step
MaxWords == 200     \* words of a text given to analyze_sentiment
MaxBatch == 3       \* entries given to extract_themes
MaxRows == 3        \* rows of emotion_history the analytics of emotions read
MaxWritten == 3     \* entries the insights and the statistics read
MaxWindow == 51     \* rows of emotion_history within the last 30 days

Users == {1, 2}
Workers == {1, 2}

None == <<>>
Some(x) == <<x>>

-----------------------------------------------------------------------------
(* Text, str.split() and the sentiment analyser. *)

Whitespace == {" ", "\n"}

RECURSIVE SplitAcc(_, _, _)
SplitAcc(s, cur, acc) ==
    IF s = <<>>
    THEN IF cur = <<>> THEN acc ELSE Append(acc, cur)
    ELSE IF Head(s) \in Whitespace
         THEN SplitAcc(Tail(s), <<>>, IF cur = <<>> THEN acc ELSE Append(acc, cur))
         ELSE SplitAcc(Tail(s), Append(cur, Head(s)), acc)

\* str.split(): the maximal runs of non-whitespace, in order
split(s) == SplitAcc(s, <<>>, <<>>)

positive_words ==
    {"happy", "joy", "excited", "grateful", "love", "wonderful", "amazing",
     "great", "good", "fantastic", "excellent", "blessed", "thankful",
     "peaceful", "calm", "content", "satisfied", "proud", "accomplished"}

negative_words ==
    {"sad", "angry", "frustrated", "worried", "anxious", "stressed", "tired",
     "exhausted", "disappointed", "hurt", "lonely", "scared", "overwhelmed",
     "depressed", "upset", "terrible", "awful", "horrible", "bad"}

\* any(k in word for k in keywords)
ContainsAny(word, keywords) == \E i \in 1..Len(word) : word[i] \in keywords

CountWords(words, keywords) ==
    Cardinality({i \in 1..Len(words) : ContainsAny(words[i], keywords)})

Abs(x) == IF x < 0 THEN -x ELSE x

\* 2^e modulo d
RECURSIVE PowMod(_, _)
PowMod(e, d) == IF e = 0 THEN 1 % d ELSE (2 * PowMod(e - 1, d)) % d

\* floor(log2(n / d)) for n, d > 0
RECURSIVE Log2Up(_, _, _)
Log2Up(n, d, L) == IF 2 * d <= n THEN Log2Up(n, 2 * d, L + 1) ELSE L
RECURSIVE Log2Down(_, _, _)
Log2Down(n, d, j) == IF n >= d THEN -j ELSE Log2Down(2 * n, d, j + 1)
FloorLog2(n, d) == IF n >= d THEN Log2Up(n, d, 0) ELSE Log2Down(2 * n, d, 1)

\* What is left of n / d below the 53rd bit of its binary expansion, as a
\* number of d-ths: 0 when the float n / d is exact, more than d / 2 when the
\* float is the next one above, less when it is the one below.  (It is never
\* d / 2 for a d below 2^40.)
FloatRest(n, d) == ((n % d) * PowMod(52 - FloorLog2(n, d), d)) % d

\* round(n / d, digits) as a number of 1/scale, scale = 10^digits, d > 0: the
\* nearest; halfway, the side the float n / d lies on, and the even one when
\* the float is exact.
PyRound(n, d, scale) ==
    LET a == Abs(n) * scale
        q == a \div d
        r == a % d
        rest == FloatRest(Abs(n), d)
        up == IF 2 * r # d THEN 2 * r > d
              ELSE IF rest = 0 THEN q % 2 = 1
              ELSE 2 * rest > d
        m == IF up THEN q + 1 ELSE q
    IN  IF n < 0 THEN -m ELSE m

\* round(n / d, 2) in hundredths
RoundHundredths(n, d) == PyRound(n, d, 100)

\* Faulty variant of Sentiment: the denominator is not increased by one.
SentimentNoSmoothing(positive_count, negative_count, total_words) ==
    LET num == positive_count - negative_count
        den == IF positive_count + negative_count = 0 THEN 1
               ELSE positive_count + negative_count
        primary == IF 10 * num > 3 * den THEN "positive"
                   ELSE IF 10 * num < -3 * den THEN "negative"
                   ELSE "neutral"
    IN  [sentiment_score |-> RoundHundredths(num, den),
         primary_emotion |-> primary,
         secondary_emotion |-> CASE primary = "positive" -> "content"
                                 [] primary = "negative" -> "concerned"
                                 [] OTHER -> "reflective",
         positive_word_count |-> positive_count,
         negative_word_count |-> negative_count]

\* analyze_sentiment from the counts on: the score, its labels and the result
Sentiment(positive_count, negative_count, total_words) ==
    LET num == IF total_words = 0 THEN 0 ELSE positive_count - negative_count
        den == positive_count + negative_count + 1
        \* sentiment_score > 0.3, < -0.3 on the unrounded quotient
        primary == IF 10 * num > 3 * den THEN "positive"
                   ELSE IF 10 * num < -3 * den THEN "negative"
                   ELSE "neutral"
    IN  [sentiment_score |-> RoundHundredths(num, den),
         primary_emotion |-> primary,
         secondary_emotion |-> CASE primary = "positive" -> "content"
                                 [] primary = "negative" -> "concerned"
                                 [] OTHER -> "reflective",
         positive_word_count |-> positive_count,
         negative_word_count |-> negative_count]

\* The counts analyze_sentiment takes of a text
\* str.lower() on the words the texts are made of
LowerWord(w) ==
    CASE w = "Job" -> "job"
      [] w = "Happy" -> "happy"
      [] OTHER -> w

lower(text) == [i \in DOMAIN text |-> LowerWord(text[i])]

Tally(text) ==
    LET words == split(lower(text))
    IN  [positive_count |-> CountWords(words, positive_words),
         negative_count |-> CountWords(words, negative_words),
         total_words |-> Len(words)]

analyze_sentiment(text) ==
    LET tally == Tally(text)
    IN  Sentiment(tally.positive_count, tally.negative_count, tally.total_words)

-----------------------------------------------------------------------------
(* extract_themes *)

\* the keys of theme_keywords, in the order of the dict
theme_names ==
    <<"work", "relationships", "health", "personal_growth", "creativity",
      "nature", "gratitude", "stress", "leisure">>

theme_keywords ==
    [theme \in {theme_names[i] : i \in DOMAIN theme_names} |->
        CASE theme = "work" ->
               {"work", "job", "career", "office", "meeting", "project", "deadline", "colleague", "boss"}
          [] theme = "relationships" ->
               {"friend", "family", "love", "partner", "relationship", "mom", "dad", "wife", "husband"}
          [] theme = "health" ->
               {"health", "exercise", "workout", "sick", "doctor", "sleep", "tired", "energy", "meditation"}
          [] theme = "personal_growth" ->
               {"learn", "grow", "challenge", "improve", "goal", "achievement", "progress", "development"}
          [] theme = "creativity" ->
               {"create", "art", "write", "music", "design", "idea", "inspiration", "imagine"}
          [] theme = "nature" ->
               {"nature", "outside", "walk", "sun", "rain", "tree", "park", "weather"}
          [] theme = "gratitude" ->
               {"grateful", "thankful", "appreciate", "blessed", "fortunate", "gratitude"}
          [] theme = "stress" ->
               {"stress", "anxious", "worry", "pressure", "overwhelm", "busy", "rush"}
          [] theme = "leisure" ->
               {"relax", "fun", "enjoy", "hobby", "read", "watch", "play", "vacation"}]

\* theme.replace("_", " ").title()
Title(theme) ==
    CASE theme = "work" -> "Work"
      [] theme = "relationships" -> "Relationships"
      [] theme = "health" -> "Health"
      [] theme = "personal_growth" -> "Personal Growth"
      [] theme = "creativity" -> "Creativity"
      [] theme = "nature" -> "Nature"
      [] theme = "gratitude" -> "Gratitude"
      [] theme = "stress" -> "Stress"
      [] theme = "leisure" -> "Leisure"

\* " ".join([entry.content for entry in entries])
RECURSIVE JoinContents(_)
JoinContents(entries) ==
    IF entries = <<>> THEN <<>>
    ELSE IF Len(entries) = 1 THEN Head(entries).content
    ELSE Head(entries).content \o <<" ">> \o JoinContents(Tail(entries))

\* theme_counts.items(): the themes with a hit, in the order of the dict
ThemeCounts(entries) ==
    LET words == split(lower(JoinContents(entries)))
        count(theme) == CountWords(words, theme_keywords[theme])
        hit(theme) == count(theme) > 0
        themes == SelectSeq(theme_names, hit)
    IN  [i \in DOMAIN themes |-> [theme |-> themes[i], count |-> count(themes[i])]]

\* Faulty variant of SortedByCount: of equal counts the last comes first
RECURSIVE SortedLastFirst(_)
SortedLastFirst(items) ==
    IF items = <<>> THEN <<>>
    ELSE LET first == CHOOSE i \in DOMAIN items :
                         /\ \A j \in DOMAIN items : items[j].count <= items[i].count
                         /\ \A j \in (i + 1)..Len(items) : items[j].count < items[i].count
             rest == [j \in 1..(Len(items) - 1) |-> IF j < first THEN items[j] ELSE items[j + 1]]
         IN  <<items[first]>> \o SortedLastFirst(rest)

\* sorted(items, key=count, reverse=True): stable, the first of equal counts first
RECURSIVE SortedByCount(_)
SortedByCount(items) ==
    IF items = <<>> THEN <<>>
    ELSE LET first == CHOOSE i \in DOMAIN items :
                         /\ \A j \in DOMAIN items : items[j].count <= items[i].count
                         /\ \A j \in 1..(i - 1) : items[j].count < items[i].count
             rest == [j \in 1..(Len(items) - 1) |-> IF j < first THEN items[j] ELSE items[j + 1]]
         IN  <<items[first]>> \o SortedByCount(rest)

RECURSIVE SumCounts(_)
SumCounts(items) == IF items = <<>> THEN 0 ELSE Head(items).count + SumCounts(Tail(items))

\* items[:n]
Take(items, n) == SubSeq(items, 1, IF Len(items) < n THEN Len(items) ELSE n)

\* the returned list; percentage in tenths: round((count / total) * 100, 1)
ThemeRows(shown, total_theme_words) ==
    [i \in DOMAIN shown |->
        [theme |-> Title(shown[i].theme),
         count |-> shown[i].count,
         percentage |-> IF total_theme_words > 0
                        THEN PyRound(100 * shown[i].count, total_theme_words, 10)
                        ELSE 0]]

\* Faulty variant of extract_themes: percentages relative to the themes returned
extract_themes_of_shown(entries) ==
    LET shown == Take(SortedByCount(ThemeCounts(entries)), 5)
    IN  ThemeRows(shown, SumCounts(shown))

extract_themes(entries) ==
    LET theme_counts == ThemeCounts(entries)
        sorted_themes == SortedByCount(theme_counts)
        total_theme_words == SumCounts(theme_counts)
    IN  ThemeRows(Take(sorted_themes, 5), total_theme_words)

-----------------------------------------------------------------------------
(* The inputs the requests are drawn from. *)

\* Request bodies of POST /api/emotions/entries/{entry_id}/emotions, as sent (JSON objects)
JoyBody == [primary |-> [emotion |-> "joy", intensity |-> 75], energy |-> 25]

\* A body the handler accepts although its intensity is out of range, whose
\* context names another entry
LoudBody ==
    [primary |-> [emotion |-> "joy", intensity |-> 150], energy |-> 10,
     context |-> Some([entry_id |-> 99])]

RawBodies ==
    { JoyBody,
      [primary |-> [emotion |-> "sad", intensity |-> 40], energy |-> 25,
       secondary |-> Some(<<"tired">>), context |-> Some([activity |-> "work"])],
      LoudBody,
      [primary |-> [emotion |-> "joy", intensity |-> 150], energy |-> 60],
      [primary |-> [emotion |-> "calm", intensity |-> 50], energy |-> -50],
      [primary |-> [emotion |-> "calm", intensity |-> 50], energy |-> -51] }

\* The bodies sent where every handler takes part
FewBodies ==
    { JoyBody, LoudBody,
      [primary |-> [emotion |-> "calm", intensity |-> 50], energy |-> -51] }

-----------------------------------------------------------------------------
(* The database. *)

EmptyDb == [entries |-> <<>>, history |-> <<>>, nextId |-> 1]

Ids(d) == DOMAIN d.entries

\* Faulty variant of FindOwned: the filter on user_id is forgotten.
FindAnyOwner(d, u, entry_id) ==
    IF entry_id \in Ids(d) THEN Some(d.entries[entry_id]) ELSE None

\* db.query(JournalEntry).filter(id == entry_id, user_id == current_user.id).first()
FindOwned(d, u, entry_id) ==
    IF entry_id \in Ids(d) /\ d.entries[entry_id].user_id = u
    THEN Some(d.entries[entry_id])
    ELSE None

PutEntry(d, id, e) ==
    [d EXCEPT !.entries = [i \in Ids(d) \cup {id} |-> IF i = id THEN e ELSE d.entries[i]]]

RemoveEntry(d, id) ==
    [d EXCEPT !.entries = [i \in Ids(d) \ {id} |-> d.entries[i]]]

-----------------------------------------------------------------------------
(* POST /api/emotions/entries/{entry_id}/emotions: the request model. *)

\* Faulty variant of EnergyValid: the upper limit is forgotten.
EnergyValidNoUpper(energy) == energy >= -50

\* Field(..., ge=-50, le=50)
EnergyValid(energy) == energy >= -50 /\ energy <= 50

\* EmotionData: pydantic's validation of the request body.  primary is an
\* unconstrained dict; the optional fields default to None.  None when the body
\* is rejected (422), otherwise the validated model.
EmotionData(raw) ==
    IF "primary" \notin DOMAIN raw \/ "energy" \notin DOMAIN raw
    THEN None
    ELSE IF ~EnergyValid(raw.energy)
    THEN None
    ELSE Some([primary |-> raw.primary,
               secondary |-> IF "secondary" \in DOMAIN raw THEN raw.secondary ELSE None,
               energy |-> raw.energy,
               context |-> IF "context" \in DOMAIN raw THEN raw.context ELSE None])

\* {"entry_id": entry_id, "timestamp": utcnow().isoformat(), **(context or {})}:
\* the keys of the caller's context come last and replace equal keys before them
HistoryContext(entry_id, context) ==
    LET base == [entry_id |-> entry_id, timestamp |-> "utcnow"]
    IN  IF context = None THEN base ELSE context[1] @@ base

\* EmotionHistory(user_id=..., emotion_data=emotion_data.dict(), context={...})
EmotionHistory(u, entry_id, data) ==
    [user_id |-> u,
     emotion_data |-> data,
     context |-> HistoryContext(entry_id, data.context)]

-----------------------------------------------------------------------------
(* The session of one update_entry_emotions request.  The entry is loaded  *)
(* by the ownership query; assignments to it and db.add() change only the  *)
(* session; db.commit() flushes them in one transaction.                   *)

IdleSession ==
    [pc |-> "idle", user |-> 0, entry_id |-> 0, body |-> None, data |-> None,
     loaded |-> None, staged |-> None, pending |-> <<>>, status |-> 0]

\* The request has been answered: the session is closed and what it had not
\* committed is discarded.  The worker keeps the request and the status it
\* answered.
Respond(s, status) ==
    [s EXCEPT !.pc = "done", !.status = status,
              !.loaded = None, !.staged = None, !.pending = <<>>]

\* Request arrival: FastAPI validates the body before the handler runs.
Receive(u, entry_id, raw) ==
    LET s == [IdleSession EXCEPT !.user = u, !.entry_id = entry_id, !.body = Some(raw)]
        data == EmotionData(raw)
    IN  IF data = None
        THEN Respond(s, 422)
        ELSE [s EXCEPT !.pc = "lookup", !.data = data]

\* lines 46-55: find the entry and verify ownership
LookupEntry(d, s) ==
    LET entry == FindOwned(d, s.user, s.entry_id)
    IN  IF entry = None
        THEN Respond(s, 404)
        ELSE [s EXCEPT !.pc = "found", !.loaded = entry, !.staged = entry]

\* Faulty variant of StageSnapshot: energy_level is not assigned.
StageSnapshotNoEnergy(s) ==
    [s EXCEPT !.pc = "written",
              !.staged = Some([s.staged[1] EXCEPT !.emotions = s.data])]

\* lines 57-60: entry.emotions = emotion_data.dict(); entry.energy_level = emotion_data.energy
StageSnapshot(s) ==
    [s EXCEPT !.pc = "written",
              !.staged = Some([s.staged[1] EXCEPT !.emotions = s.data,
                                                  !.energy_level = Some(s.data[1].energy)])]

\* lines 62-72: db.add(EmotionHistory(...))
StageHistory(s) ==
    [s EXCEPT !.pc = "added",
              !.pending = Append(s.pending, EmotionHistory(s.user, s.entry_id, s.data[1]))]

\* Faulty variant of FlushEntry: the UPDATE writes every column the session holds
FlushWholeRow(row, loaded, staged) == staged

\* The columns of the UPDATE the flush emits: the unit of work writes an
\* attribute only if its value differs from the value the session loaded.
\* (updated_at, not modelled, always differs, so an UPDATE is always emitted.)
FlushEntry(row, loaded, staged) ==
    [row EXCEPT !.emotions = IF staged.emotions # loaded.emotions
                             THEN staged.emotions ELSE row.emotions,
                !.energy_level = IF staged.energy_level # loaded.energy_level
                                 THEN staged.energy_level ELSE row.energy_level]

\* Faulty variant of CommitSession: the UPDATE is committed, the INSERT is lost.
CommitSnapshotOnly(d, s) ==
    PutEntry(d, s.entry_id, FlushEntry(d.entries[s.entry_id], s.loaded[1], s.staged[1]))

\* line 74, db.commit(): UPDATE journal_entries and INSERT emotion_history in
\* one transaction.
CommitSession(d, s) ==
    LET updated == PutEntry(d, s.entry_id,
                            FlushEntry(d.entries[s.entry_id], s.loaded[1], s.staged[1]))
    IN  [updated EXCEPT !.history = d.history \o s.pending]

\* The handler run from the request to the response without a failure.
update_entry_emotions(d, u, entry_id, raw) ==
    LET received == Receive(u, entry_id, raw)
        looked == LookupEntry(d, received)
    IN  IF received.pc = "done"
        THEN [db |-> d, status |-> received.status]
        ELSE IF looked.pc = "done"
        THEN [db |-> d, status |-> looked.status]
        ELSE [db |-> CommitSession(d, StageHistory(StageSnapshot(looked))),
              status |-> 200]

-----------------------------------------------------------------------------
(* The other handlers.  Each runs in a session of its own and is taken as  *)
(* one step: [db |-> the database after it, status |-> the HTTP status].    *)

\* POST /api/entries/.  created_at defaults to utcnow(), the instant now of
\* the request.
create_entry(d, u, entry, now) ==
    LET word_count == Len(split(entry.content))
        db_entry == [user_id |-> u, content |-> entry.content, mood |-> entry.mood,
                     mood_score |-> None, emotions |-> None, energy_level |-> None,
                     word_count |-> word_count, created_at |-> now]
    IN  [db |-> [PutEntry(d, d.nextId, db_entry) EXCEPT !.nextId = d.nextId + 1],
         status |-> 200]

\* PUT /api/entries/{entry_id}; update_data is model_dump(exclude_unset=True)
update_entry(d, u, entry_id, update_data) ==
    LET entry == FindOwned(d, u, entry_id)
    IN  IF entry = None
        THEN [db |-> d, status |-> 404]
        ELSE IF "content" \in DOMAIN update_data /\ update_data.content = None
        THEN [db |-> d, status |-> 500]     \* None.split() raises
        ELSE LET e1 == IF "content" \in DOMAIN update_data
                       THEN [entry[1] EXCEPT
                                !.content = update_data.content[1],
                                !.word_count = Len(split(update_data.content[1]))]
                       ELSE entry[1]
                 e2 == IF "mood" \in DOMAIN update_data
                       THEN [e1 EXCEPT !.mood = update_data.mood]
                       ELSE e1
             IN  [db |-> PutEntry(d, entry_id, e2), status |-> 200]

\* Faulty variant of delete_entry: the history rows recorded for the entry are
\* deleted with it.
delete_entry_and_history(d, u, entry_id) ==
    IF FindOwned(d, u, entry_id) = None
    THEN [db |-> d, status |-> 404]
    ELSE [db |-> [RemoveEntry(d, entry_id) EXCEPT
                     !.history = SelectSeq(d.history,
                                           LAMBDA row : row.context.entry_id # entry_id)],
          status |-> 200]

\* DELETE /api/entries/{entry_id}
delete_entry(d, u, entry_id) ==
    IF FindOwned(d, u, entry_id) = None
    THEN [db |-> d, status |-> 404]
    ELSE [db |-> RemoveEntry(d, entry_id), status |-> 200]

\* GET /api/entries/{entry_id}
get_entry(d, u, entry_id) ==
    [db |-> d, status |-> IF FindOwned(d, u, entry_id) = None THEN 404 ELSE 200]

\* Faulty variant of analyze_entry: the legacy mood is overwritten with the
\* primary emotion as well.
analyze_entry_and_mood(d, u, entry_id) ==
    LET entry == FindOwned(d, u, entry_id)
    IN  IF entry = None
        THEN [db |-> d, status |-> 404]
        ELSE LET analysis == analyze_sentiment(entry[1].content)
             IN  [db |-> PutEntry(d, entry_id,
                            [entry[1] EXCEPT !.mood_score = Some(analysis.sentiment_score),
                                             !.mood = Some(analysis.primary_emotion)]),
                  status |-> 200]

\* POST /api/ai/entries/{entry_id}/analyze
analyze_entry(d, u, entry_id) ==
    LET entry == FindOwned(d, u, entry_id)
    IN  IF entry = None
        THEN [db |-> d, status |-> 404]
        ELSE LET analysis == analyze_sentiment(entry[1].content)
             IN  [db |-> PutEntry(d, entry_id,
                            [entry[1] EXCEPT !.mood_score = Some(analysis.sentiment_score)]),
                  status |-> 200]

\* POST /api/ai/entries/{entry_id}/reflect
get_reflection(d, u, entry_id) ==
    [db |-> d, status |-> IF FindOwned(d, u, entry_id) = None THEN 404 ELSE 200]

\* The ids in S, the entry created last first
RECURSIVE NewestFirst(_, _)
NewestFirst(d, S) ==
    IF S = {}
    THEN <<>>
    ELSE LET i == CHOOSE i \in S : \A j \in S : d.entries[j].created_at <= d.entries[i].created_at
         IN  <<i>> \o NewestFirst(d, S \ {i})

\* Faulty variant of QueryEntries: the filter on user_id is forgotten
QueryAllEntries(d, u) ==
    LET ids == NewestFirst(d, Ids(d))
    IN  [k \in 1..Len(ids) |-> [id |-> ids[k]] @@ d.entries[ids[k]]]

\* db.query(JournalEntry).filter(user_id == current_user.id)
\*   .order_by(created_at.desc()): the rows, each with its id
QueryEntries(d, u) ==
    LET ids == NewestFirst(d, {i \in Ids(d) : d.entries[i].user_id = u})
    IN  [k \in 1..Len(ids) |-> [id |-> ids[k]] @@ d.entries[ids[k]]]

\* Faulty variant of QueryHistory: the rows come oldest first
QueryOldestFirst(d, u) == SelectSeq(d.history, LAMBDA row : row.user_id = u)

\* db.query(EmotionHistory).filter(user_id == current_user.id, ...)
\*   .order_by(desc(created_at)): the rows are appended in the order of time,
\* and all lie in the period asked for
QueryHistory(d, u) ==
    LET rows == SelectSeq(d.history, LAMBDA row : row.user_id = u)
    IN  [k \in 1..Len(rows) |-> rows[Len(rows) + 1 - k]]

\* limit: int = Query(20, ...) of GET /api/entries/
DefaultLimit == 20

\* GET /api/entries/ with the default skip and limit and no filter
get_entries(d, u) ==
    LET rows == QueryEntries(d, u)
    IN  [db |-> d, status |-> 200,
         body |-> SubSeq(rows, 1, IF Len(rows) < DefaultLimit THEN Len(rows) ELSE DefaultLimit)]

\* GET /api/ai/themes, /api/ai/insights, /api/ai/prompts/daily,
\* /api/emotions/suggestions, /api/emotions/history: queries only
get_themes(d, u) == [db |-> d, status |-> 200]
get_writing_insights(d, u) == [db |-> d, status |-> 200]
get_daily_prompts(d, u) == [db |-> d, status |-> 200]
get_emotion_suggestions(d, u) == [db |-> d, status |-> 200]
get_emotion_history(d, u) == [db |-> d, status |-> 200]

-----------------------------------------------------------------------------
(* generate_daily_prompts *)

prompt_templates ==
    [category \in {"memory", "growth", "mindfulness", "creative", "gratitude", "relationships"} |->
        CASE category = "memory" ->
               <<"What moment from today would you want to remember in 5 years?",
                 "Describe a conversation today that made you think differently.",
                 "What small victory did you achieve today?",
                 "What made you smile unexpectedly today?">>
          [] category = "growth" ->
               <<"What challenged you today, and how did you grow from it?",
                 "What did you learn about yourself today?",
                 "How did you step outside your comfort zone today?",
                 "What would you do differently if you could replay today?">>
          [] category = "mindfulness" ->
               <<"Describe a small detail you noticed today that others might have missed.",
                 "What sounds, smells, or textures stood out to you today?",
                 "When did you feel most present today?",
                 "What beauty did you encounter in the ordinary today?">>
          [] category = "creative" ->
               <<"If today had a color, what would it be and why?",
                 "Write today's story in exactly six words.",
                 "If today was a song, what would its title be?",
                 "Describe today using only metaphors from nature.">>
          [] category = "gratitude" ->
               <<"List three things you're grateful for today, no matter how small.",
                 "Who made a positive impact on your day?",
                 "What comfort or convenience did you appreciate today?",
                 "What aspect of your health are you thankful for today?">>
          [] category = "relationships" ->
               <<"How did you connect with someone today?",
                 "What did you appreciate about someone in your life today?",
                 "How did you show kindness today?",
                 "What relationship do you want to nurture more?">>]

\* db.query(JournalEntry.mood, func.count(JournalEntry.id))
\*   .filter(user_id == user.id, mood.isnot(None)).group_by(JournalEntry.mood)
MoodCounts(d, u) ==
    LET tagged == {i \in Ids(d) : d.entries[i].user_id = u /\ d.entries[i].mood # None}
        moods == {d.entries[i].mood[1] : i \in tagged}
    IN  [mood \in moods |-> Cardinality({i \in tagged : d.entries[i].mood[1] = mood})]

\* sum(count for mood, count in mood_counts if mood in moods)
RECURSIVE SumMoods(_, _)
SumMoods(mood_counts, moods) ==
    IF moods = {} THEN 0
    ELSE LET mood == CHOOSE mood \in moods : TRUE
         IN  mood_counts[mood] + SumMoods(mood_counts, moods \ {mood})

\* Faulty variant of Personalize: half of the tagged entries is enough
PersonalizeAtHalf(mood_counts) ==
    LET negative_moods == SumMoods(mood_counts, DOMAIN mood_counts \cap {"sad", "frustrated", "anxious"})
        total_moods == SumMoods(mood_counts, DOMAIN mood_counts)
    IN  /\ DOMAIN mood_counts # {}
        /\ 2 * negative_moods >= total_moods

\* if mood_counts: ... if negative_moods > total_moods * 0.5:
Personalize(mood_counts) ==
    LET negative_moods == SumMoods(mood_counts, DOMAIN mood_counts \cap {"sad", "frustrated", "anxious"})
        total_moods == SumMoods(mood_counts, DOMAIN mood_counts)
    IN  /\ DOMAIN mood_counts # {}
        /\ 2 * negative_moods > total_moods

\* random.sample(prompt_templates[category], 1); pick[category] is the draw
Sample(category, pick) == <<prompt_templates[category][pick[category]]>>

\* selected_prompts before the slice
SelectPrompts(mood_counts, pick) ==
    (IF Personalize(mood_counts)
     THEN Sample("gratitude", pick) \o Sample("growth", pick)
     ELSE <<>>)
    \o Sample("memory", pick) \o Sample("mindfulness", pick)
    \o Sample("creative", pick) \o Sample("relationships", pick)

\* Faulty variant of FormatPrompts: the slice keeps 3 prompts
FormatThreePrompts(selected_prompts) ==
    [i \in 1..3 |-> [id |-> i, text |-> selected_prompts[i], category |-> "relationships"]]

\* The returned list: selected_prompts[:4]; every prompt is a str, and its
\* category is the last value of the loop variable
FormatPrompts(selected_prompts) ==
    [i \in DOMAIN Take(selected_prompts, 4) |->
        [id |-> i, text |-> selected_prompts[i], category |-> "relationships"]]

\* The while loop (lines 95-99) runs while fewer than 4 prompts are selected:
\* the four categories of the for loop are always there, so it never runs.
generate_daily_prompts(d, u, pick) ==
    LET mood_counts == MoodCounts(d, u)
        selected_prompts == SelectPrompts(mood_counts, pick)
    IN  [op |-> "generate_daily_prompts", user |-> u,
         selected_prompts |-> selected_prompts,
         result |-> FormatPrompts(selected_prompts)]


-----------------------------------------------------------------------------
(* The answers of GET /api/emotions/suggestions and /api/emotions/history  *)

\* hist.emotion_data.get("primary", {}).get("emotion"), when it is truthy
HasEmotion(row) ==
    /\ "emotion" \in DOMAIN row.emotion_data.primary
    /\ row.emotion_data.primary.emotion # ""

\* primary.get("intensity", 0)
IntensityOf(row) ==
    IF "intensity" \in DOMAIN row.emotion_data.primary
    THEN row.emotion_data.primary.intensity
    ELSE 0

\* The keys of the dict filled in the loop over the rows: the emotions in
\* the order of their first row
EmotionKeys(rows, keys) ==
    LET seen == {keys[i] : i \in DOMAIN keys}
        emotion(i) == rows[i].emotion_data.primary.emotion
        first(i) == /\ HasEmotion(rows[i])
                    /\ emotion(i) \notin seen
                    /\ \A j \in 1..(i - 1) : HasEmotion(rows[j]) => emotion(j) # emotion(i)
        firsts == SelectSeq([i \in 1..Len(rows) |-> i], first)
    IN  keys \o [k \in DOMAIN firsts |-> emotion(firsts[k])]

\* the rows of one emotion, in the order of the query
RowsOf(rows, emotion) ==
    LET of(row) == HasEmotion(row) /\ row.emotion_data.primary.emotion = emotion
    IN  SelectSeq(rows, of)

\* max(emotion_counts, key=emotion_counts.get): the first key of maximal count
MostCommon(rows) ==
    LET keys == EmotionKeys(rows, <<>>)
        count(k) == Len(RowsOf(rows, keys[k]))
        first == CHOOSE k \in DOMAIN keys :
                    /\ \A j \in DOMAIN keys : count(j) <= count(k)
                    /\ \A j \in 1..(k - 1) : count(j) < count(k)
    IN  keys[first]

\* if 6 <= current_hour <= 10: ... elif 17 <= current_hour <= 21: ...
TimeBased(current_hour) ==
    IF 6 <= current_hour /\ current_hour <= 10
    THEN <<[emotion |-> "optimistic", intensity |-> 70,
            reason |-> <<"Morning hours are often associated with optimism">>]>>
    ELSE IF 17 <= current_hour /\ current_hour <= 21
    THEN <<[emotion |-> "reflective", intensity |-> 60,
            reason |-> <<"Evening is a natural time for reflection">>]>>
    ELSE <<>>

\* if recent_emotions: ... if emotion_counts: ...
PatternBased(recent_emotions) ==
    IF EmotionKeys(recent_emotions, <<>>) = <<>>
    THEN <<>>
    ELSE LET most_common == MostCommon(recent_emotions)
         IN  <<[emotion |-> most_common, intensity |-> 50,
                reason |-> <<"You've been feeling ", most_common, " frequently lately">>]>>

DefaultSuggestions ==
    <<[emotion |-> "content", intensity |-> 60, reason |-> <<"A good starting point">>],
      [emotion |-> "curious", intensity |-> 50, reason |-> <<"Great for self-reflection">>],
      [emotion |-> "grateful", intensity |-> 70, reason |-> <<"Positive emotional state">>]>>

\* Faulty variant of emotion_suggestions: the defaults are added whenever
\* the history is empty
emotion_suggestions_no_history(d, u, current_hour) ==
    LET recent_emotions == Take(QueryHistory(d, u), 50)
        suggestions == TimeBased(current_hour) \o PatternBased(recent_emotions)
    IN  [op |-> "get_emotion_suggestions", user |-> u, current_hour |-> current_hour,
         result |-> Take(IF recent_emotions = <<>> THEN suggestions \o DefaultSuggestions
                         ELSE suggestions, 3)]

\* GET /api/emotions/suggestions: the rows are the newest 50 of the last 30 days
emotion_suggestions(d, u, current_hour) ==
    LET recent_emotions == Take(QueryHistory(d, u), 50)
        suggestions == TimeBased(current_hour) \o PatternBased(recent_emotions)
    IN  [op |-> "get_emotion_suggestions", user |-> u, current_hour |-> current_hour,
         result |-> Take(IF suggestions = <<>> THEN DefaultSuggestions ELSE suggestions, 3)]

RECURSIVE SumIntensities(_)
SumIntensities(rows) ==
    IF rows = <<>> THEN 0
    ELSE IF Len(rows) = 1 THEN IntensityOf(rows[1])
    ELSE LET half == Len(rows) \div 2
         IN  SumIntensities(SubSeq(rows, 1, half))
             + SumIntensities(SubSeq(rows, half + 1, Len(rows)))

\* EmotionPattern(...) for each key of emotion_data; avg_intensity in tenths
Patterns(emotions) ==
    LET keys == EmotionKeys(emotions, <<>>)
    IN  [k \in DOMAIN keys |->
            LET intensities == RowsOf(emotions, keys[k])
            IN  [emotion |-> keys[k],
                 frequency |-> Len(intensities),
                 avg_intensity |-> PyRound(SumIntensities(intensities), Len(intensities), 10),
                 trend |-> "stable"]]

\* Faulty variant of SortByFrequency: the patterns stay in the order of the dict
KeepOrder(patterns) == patterns

\* patterns.sort(key=lambda x: x.frequency, reverse=True): stable
RECURSIVE SortByFrequency(_)
SortByFrequency(patterns) ==
    IF patterns = <<>> THEN <<>>
    ELSE LET first == CHOOSE i \in DOMAIN patterns :
                         /\ \A j \in DOMAIN patterns : patterns[j].frequency <= patterns[i].frequency
                         /\ \A j \in 1..(i - 1) : patterns[j].frequency < patterns[i].frequency
             rest == [j \in 1..(Len(patterns) - 1) |->
                         IF j < first THEN patterns[j] ELSE patterns[j + 1]]
         IN  <<patterns[first]>> \o SortByFrequency(rest)

\* insights: each f-string as its text with the values put in
Insights(patterns, days) ==
    IF patterns = <<>> THEN <<>>
    ELSE <<[text |-> "Your most frequent emotion lately is '{}' with an average intensity of {}",
            values |-> <<patterns[1].emotion, patterns[1].avg_intensity>>]>>
         \o (IF Len(patterns) > 1
             THEN <<[text |-> "You've experienced {} different emotions in the last {} days",
                     values |-> <<Len(patterns), days>>]>>
             ELSE <<>>)

\* the answer when there are rows
HistoryResponse(emotions, days) ==
    LET patterns == SortByFrequency(Patterns(emotions))
        recent == Take(emotions, 7)
    IN  [patterns |-> patterns,
         recent_emotions |-> [k \in DOMAIN recent |-> recent[k].emotion_data],
         insights |-> Insights(patterns, days)]

\* Faulty variant of emotion_history: no answer of its own for an empty history
emotion_history_analysed(d, u, days) ==
    [op |-> "get_emotion_history", user |-> u, days |-> days,
     result |-> HistoryResponse(QueryHistory(d, u), days)]

\* GET /api/emotions/history
emotion_history(d, u, days) ==
    LET emotions == QueryHistory(d, u)
    IN  [op |-> "get_emotion_history", user |-> u, days |-> days,
         result |-> IF emotions = <<>>
                    THEN [patterns |-> <<>>,
                          recent_emotions |-> <<>>,
                          insights |-> <<[text |-> "Start tracking your emotions to see patterns and insights!",
                                          values |-> <<>>]>>]
                    ELSE HistoryResponse(emotions, days)]


-----------------------------------------------------------------------------
(* get_writing_insights.  created_at counts the hours since midnight of    *)
(* day 0 (UTC).                                                             *)

\* created_at.hour and created_at.date()
HourOf(created_at) == created_at % 24
DateOf(created_at) == created_at \div 24

\* the values max(set(entry_hours), key=entry_hours.count) can return: the
\* first hour of maximal count in the iteration order of the set, which is
\* not an order the language defines
ModeHours(entry_hours) ==
    LET count(h) == Cardinality({k \in DOMAIN entry_hours : entry_hours[k] = h})
    IN  {entry_hours[k] : k \in {k \in DOMAIN entry_hours :
                                    \A j \in DOMAIN entry_hours : count(entry_hours[j]) <= count(entry_hours[k])}}

\* Faulty variant of WritingPattern: noon counts as morning
WritingPatternNoon(most_common_hour) ==
    IF 5 <= most_common_hour /\ most_common_hour <= 12 THEN "morning writer"
    ELSE IF 12 <= most_common_hour /\ most_common_hour < 17 THEN "afternoon reflector"
    ELSE IF 17 <= most_common_hour /\ most_common_hour < 22 THEN "evening journalist"
    ELSE "night owl"

WritingPattern(most_common_hour) ==
    IF 5 <= most_common_hour /\ most_common_hour < 12 THEN "morning writer"
    ELSE IF 12 <= most_common_hour /\ most_common_hour < 17 THEN "afternoon reflector"
    ELSE IF 17 <= most_common_hour /\ most_common_hour < 22 THEN "evening journalist"
    ELSE "night owl"

RECURSIVE SumSentiments(_)
SumSentiments(entries) ==
    IF entries = <<>> THEN 0
    ELSE analyze_sentiment(Head(entries).content).sentiment_score + SumSentiments(Tail(entries))

\* AIService.get_writing_insights; most_common_hour is one of
\* ModeHours(entry_hours) when there are entries.  Scores are in hundredths.
writing_insights(d, u, most_common_hour) ==
    LET entries == QueryEntries(d, u)
    IN  [op |-> "get_writing_insights", user |-> u,
         result |->
            IF entries = <<>>
            THEN [total_entries |-> 0,
                  themes |-> <<>>,
                  average_sentiment |-> 0,
                  writing_pattern |-> "No data yet"]
            ELSE [total_entries |-> Len(entries),
                  themes |-> extract_themes(entries),
                  average_sentiment |-> PyRound(SumSentiments(entries), 100 * Len(entries), 100),
                  writing_pattern |-> WritingPattern(most_common_hour),
                  most_active_hour |-> most_common_hour]]


-----------------------------------------------------------------------------
(* GET /api/stats *)

\* the loop over the entries, newest first: the streak grows while the
\* entry lies as many days back as the streak counts, and the loop ends at
\* the first entry that does not
RECURSIVE StreakLoop(_, _, _)
StreakLoop(entries, current_date, streak) ==
    IF entries = <<>> THEN streak
    ELSE IF current_date - DateOf(Head(entries).created_at) = streak
    THEN StreakLoop(Tail(entries), current_date, streak + 1)
    ELSE streak

RECURSIVE SumWordCounts(_)
SumWordCounts(entries) ==
    IF entries = <<>> THEN 0 ELSE Head(entries).word_count + SumWordCounts(Tail(entries))

\* get_user_stats at the instant now
get_user_stats(d, u, now) ==
    LET entries == QueryEntries(d, u)
        week_start == now - 7 * 24
        of_week(entry) == entry.created_at >= week_start
    IN  [op |-> "get_user_stats", user |-> u, now |-> now,
         result |-> [total_entries |-> Len(entries),
                     week_word_count |-> SumWordCounts(SelectSeq(entries, of_week)),
                     current_streak |-> StreakLoop(entries, DateOf(now), 0),
                     mood_distribution |-> MoodCounts(d, u)]]


-----------------------------------------------------------------------------

\* entry_data.get(key): None when the key is absent
Get(entry_data, key) == IF key \in DOMAIN entry_data THEN entry_data[key] ELSE None

\* entry_data.get("word_count", len(entry_data["content"].split()))
ImportedWordCount(entry_data) ==
    IF "word_count" \in DOMAIN entry_data
    THEN entry_data.word_count
    ELSE Len(split(entry_data.content))

\* the loop of import_entries_json over data["entries"]
RECURSIVE ImportLoop(_, _, _)
ImportLoop(d, u, entries) ==
    IF entries = <<>>
    THEN d
    ELSE LET entry_data == Head(entries)
             existing == \E i \in Ids(d) :
                            /\ d.entries[i].user_id = u
                            /\ d.entries[i].created_at = entry_data.created_at
             new_entry == [user_id |-> u, content |-> entry_data.content,
                           mood |-> Get(entry_data, "mood"),
                           mood_score |-> Get(entry_data, "mood_score"),
                           emotions |-> None, energy_level |-> None,
                           word_count |-> ImportedWordCount(entry_data),
                           created_at |-> entry_data.created_at]
         IN  IF existing
             THEN ImportLoop(d, u, Tail(entries))
             ELSE ImportLoop([PutEntry(d, d.nextId, new_entry) EXCEPT !.nextId = d.nextId + 1],
                             u, Tail(entries))

\* POST /api/import/json
import_entries_json(d, u, data) ==
    IF "entries" \notin DOMAIN data
    THEN [db |-> d, status |-> 500]    \* the 400 is caught by "except Exception"
    ELSE [db |-> ImportLoop(d, u, data.entries), status |-> 200]

-----------------------------------------------------------------------------
(* More inputs. *)

Happy == <<"un", "happy">>
SadDay == <<" ", "sad", "\n", "day", " ">>

\* Bodies of POST /api/entries/ and PUT /api/entries/{entry_id}
NewEntries == { [content |-> Happy, mood |-> None] }

UpdateBodies ==
    { [content |-> Some(SadDay), mood |-> Some("sad")],
      [content |-> None] }

\* The same, with more variety, for the specification of the entry handlers alone
MoreNewEntries ==
    NewEntries \cup { [content |-> SadDay, mood |-> Some("sad")],
                      [content |-> <<>>, mood |-> None] }

MoreUpdateBodies ==
    UpdateBodies \cup { [content |-> Some(Happy)], [mood |-> None] }

BackupEntries ==
    { [content |-> Happy, created_at |-> 1, updated_at |-> 1],
      [content |-> SadDay, created_at |-> 2, updated_at |-> 2,
       word_count |-> 2, mood |-> Some("sad")],
      [content |-> Happy, created_at |-> 1, updated_at |-> 1, word_count |-> 7] }

\* Backups whose entries have pairwise different created_at, so that the
\* result does not depend on whether the session autoflushes before the
\* duplicate query.
BackupFiles ==
    { [version |-> "1.0"] }
        \cup { [entries |-> <<e>>] : e \in BackupEntries }
        \cup { [entries |-> <<e1, e2>>] : e1 \in {e \in BackupEntries : e.created_at = 1},
                                          e2 \in {e \in BackupEntries : e.created_at = 2} }

-----------------------------------------------------------------------------
(* The state machine. *)

Init ==
    /\ db = EmptyDb
    /\ sess = [w \in Workers |-> IdleSession]
    /\ okCalls = [u \in Users |-> 0]
    /\ shadow = EmptyDb
    /\ call = None

\* A request for update_entry_emotions arrives at worker w.  In the
\* specifications that serve the request step by step each worker serves one
\* request.
Begin(w) ==
    /\ sess[w].pc = "idle"
    /\ \E u \in Users, entry_id \in 1..MaxEntries, raw \in RawBodies :
          sess' = [sess EXCEPT ![w] = Receive(u, entry_id, raw)]
    /\ UNCHANGED <<db, okCalls, shadow, call>>

Lookup(w) ==
    /\ sess[w].pc = "lookup"
    /\ sess' = [sess EXCEPT ![w] = LookupEntry(db, sess[w])]
    /\ UNCHANGED <<db, okCalls, shadow, call>>

WriteSnapshot(w) ==
    /\ sess[w].pc = "found"
    /\ sess' = [sess EXCEPT ![w] = StageSnapshot(sess[w])]
    /\ UNCHANGED <<db, okCalls, shadow, call>>

AddHistory(w) ==
    /\ sess[w].pc = "written"
    /\ sess' = [sess EXCEPT ![w] = StageHistory(sess[w])]
    /\ UNCHANGED <<db, okCalls, shadow, call>>

\* db.commit(), db.refresh(entry) and the response.  The UPDATE of a row that
\* was deleted meanwhile matches no row: the flush raises and nothing is
\* committed.
Commit(w) ==
    /\ sess[w].pc = "added"
    /\ IF sess[w].entry_id \in Ids(db)
       THEN /\ db' = CommitSession(db, sess[w])
            /\ okCalls' = [okCalls EXCEPT ![sess[w].user] = @ + 1]
            /\ sess' = [sess EXCEPT ![w] = Respond(sess[w], 200)]
       ELSE /\ sess' = [sess EXCEPT ![w] = Respond(sess[w], 500)]
            /\ UNCHANGED <<db, okCalls>>
    /\ UNCHANGED <<shadow, call>>

\* The request fails at any point after validation (the store is
\* unavailable, the commit is refused): the session is closed without a commit.
Abort(w) ==
    /\ sess[w].pc \in {"lookup", "found", "written", "added"}
    /\ sess' = [sess EXCEPT ![w] = Respond(sess[w], 500)]
    /\ UNCHANGED <<db, okCalls, shadow, call>>

\* One of the other handlers answers a request: r is its result.  Entries are
\* created at distinct instants: the i-th at instant i.
Served(r) ==
    /\ db' = r.db
    /\ UNCHANGED <<sess, okCalls, shadow, call>>

CreateEntry(bodies) ==
    /\ db.nextId <= MaxEntries
    /\ \E u \in Users, entry \in bodies : Served(create_entry(db, u, entry, db.nextId))

UpdateEntry(bodies) ==
    \E u \in Users, entry_id \in 1..MaxEntries, update_data \in bodies :
        Served(update_entry(db, u, entry_id, update_data))

DeleteEntry ==
    \E u \in Users, entry_id \in 1..MaxEntries :
        Served(delete_entry(db, u, entry_id))

AnalyzeEntry ==
    \E u \in Users, entry_id \in 1..MaxEntries :
        Served(analyze_entry(db, u, entry_id))

ImportEntries ==
    \E u \in Users, data \in BackupFiles :
        /\ "entries" \in DOMAIN data => db.nextId + Len(data.entries) - 1 <= MaxEntries
        /\ Served(import_entries_json(db, u, data))

ReadEntry ==
    \E u \in Users, entry_id \in 1..MaxEntries :
        \/ Served(get_entry(db, u, entry_id))
        \/ Served(get_reflection(db, u, entry_id))

ReadAnalytics ==
    \E u \in Users :
        \/ Served(get_entries(db, u))
        \/ Served(get_themes(db, u))
        \/ Served(get_writing_insights(db, u))
        \/ Served(get_daily_prompts(db, u))
        \/ Served(get_emotion_suggestions(db, u))
        \/ Served(get_emotion_history(db, u))

\* update_entry_emotions served in one step (no other request in between).
RecordEmotion ==
    /\ \E u \in Users, entry_id \in 1..MaxEntries, raw \in FewBodies :
          LET r == update_entry_emotions(db, u, entry_id, raw)
          IN  /\ Len(r.db.history) <= MaxHistory
              /\ db' = r.db
              /\ okCalls' = [okCalls EXCEPT ![u] = IF r.status = 200 THEN @ + 1 ELSE @]
    /\ UNCHANGED <<sess, shadow, call>>

\* Every handler, each request served in one step.
Next ==
    \/ RecordEmotion
    \/ CreateEntry(NewEntries)
    \/ UpdateEntry(UpdateBodies)
    \/ DeleteEntry
    \/ AnalyzeEntry
    \/ ReadEntry
    \/ ReadAnalytics

Spec == Init /\ [][Next]_vars

\* The handlers that create, change and delete entries, with more inputs.
EntryNext ==
    \/ CreateEntry(MoreNewEntries)
    \/ UpdateEntry(MoreUpdateBodies)
    \/ DeleteEntry
    \/ ImportEntries

EntrySpec == Init /\ [][EntryNext]_vars

\* A database the handlers produce: each user has written one entry and user 1
\* has recorded an emotion on theirs.
Populated ==
    LET entry == CHOOSE e \in NewEntries : TRUE
        d1 == create_entry(EmptyDb, 1, entry, 1).db
        d2 == create_entry(d1, 2, entry, 2).db
    IN  update_entry_emotions(d2, 1, 1, JoyBody).db

PopulatedInit ==
    /\ db = Populated
    /\ sess = [w \in Workers |-> IdleSession]
    /\ okCalls = [u \in Users |-> IF u = 1 THEN 1 ELSE 0]
    /\ shadow = EmptyDb
    /\ call = None

\* One update_entry_emotions request served step by step, failing at any point,
\* while entries are changed and deleted by other requests.
StepNext ==
    \/ Begin(1)
    \/ Lookup(1)
    \/ WriteSnapshot(1)
    \/ AddHistory(1)
    \/ Commit(1)
    \/ Abort(1)
    \/ UpdateEntry(UpdateBodies)
    \/ DeleteEntry

StepSpec == PopulatedInit /\ [][StepNext]_vars

\* Two update_entry_emotions requests served by two worker processes, their
\* steps interleaved.
ConcNext ==
    \E w \in Workers :
        \/ Begin(w)
        \/ Lookup(w)
        \/ WriteSnapshot(w)
        \/ AddHistory(w)
        \/ Commit(w)
        \/ Abort(w)

ConcSpec == PopulatedInit /\ [][ConcNext]_vars


\* Two runs side by side: db is the database of the run of both users, shadow
\* the database of the run of the same requests without those of user 1.
\* User 2 knows an entry by the id the creation returned: in the run without
\* user 1 it addresses the entry it created at the same instant.
UserA == 1
UserB == 2

ShadowId(entry_id) ==
    IF /\ entry_id \in Ids(db)
       /\ \E i \in Ids(shadow) : shadow.entries[i].created_at = db.entries[entry_id].created_at
    THEN CHOOSE i \in Ids(shadow) : shadow.entries[i].created_at = db.entries[entry_id].created_at
    ELSE 0

\* A request of user u is answered: r in the run of both users, rs in the other.
BothRuns(u, r, rs) ==
    /\ db' = r.db
    /\ shadow' = IF u = UserB THEN rs.db ELSE shadow
    /\ okCalls' = [okCalls EXCEPT ![u] = @ + Len(r.db.history) - Len(db.history)]
    /\ UNCHANGED <<sess, call>>

IsoCreate ==
    /\ db.nextId <= MaxEntries
    /\ \E u \in Users, entry \in NewEntries :
          BothRuns(u, create_entry(db, u, entry, db.nextId),
                      create_entry(shadow, u, entry, db.nextId))

IsoUpdate ==
    \E u \in Users, entry_id \in 1..MaxEntries, update_data \in UpdateBodies :
        BothRuns(u, update_entry(db, u, entry_id, update_data),
                    update_entry(shadow, u, ShadowId(entry_id), update_data))

IsoDelete ==
    \E u \in Users, entry_id \in 1..MaxEntries :
        BothRuns(u, delete_entry(db, u, entry_id),
                    delete_entry(shadow, u, ShadowId(entry_id)))

IsoAnalyze ==
    \E u \in Users, entry_id \in 1..MaxEntries :
        BothRuns(u, analyze_entry(db, u, entry_id),
                    analyze_entry(shadow, u, ShadowId(entry_id)))

IsoRecord ==
    \E u \in Users, entry_id \in 1..MaxEntries, raw \in FewBodies :
        /\ Len(update_entry_emotions(db, u, entry_id, raw).db.history) <= MaxHistory
        /\ BothRuns(u, update_entry_emotions(db, u, entry_id, raw),
                       update_entry_emotions(shadow, u, ShadowId(entry_id), raw))

IsoNext ==
    \/ IsoCreate
    \/ IsoUpdate
    \/ IsoDelete
    \/ IsoAnalyze
    \/ IsoRecord

IsoSpec == Init /\ [][IsoNext]_vars

-----------------------------------------------------------------------------
(* analyze_sentiment on texts of any length.  The result depends on the    *)
(* text through its counts only: the state keeps the counts of the text,   *)
(* which grows by a word at a time.                                         *)

SentimentTexts == { <<>>, <<" ", "\n">>, Happy, SadDay, <<"sad", "happy">> }

SentimentCall(tally) ==
    [op |-> "analyze_sentiment",
     tally |-> tally,
     result |-> Sentiment(tally.positive_count, tally.negative_count, tally.total_words)]

SentimentInit ==
    /\ db = EmptyDb
    /\ sess = [w \in Workers |-> IdleSession]
    /\ okCalls = [u \in Users |-> 0]
    /\ shadow = EmptyDb
    /\ \E text \in SentimentTexts : call = SentimentCall(Tally(text))

\* The text with one more word: one containing a positive keyword, one
\* containing a negative keyword, one containing neither.
AppendWord(positive, negative) ==
    /\ call.tally.total_words < MaxWords
    /\ call' = SentimentCall([positive_count |-> call.tally.positive_count + positive,
                              negative_count |-> call.tally.negative_count + negative,
                              total_words |-> call.tally.total_words + 1])
    /\ UNCHANGED <<db, sess, okCalls, shadow>>

AppendPositive == AppendWord(1, 0)

AppendNegative == AppendWord(0, 1)

AppendPlain ==
    /\ call.tally.total_words = 0
    /\ AppendWord(0, 0)

SentimentNext ==
    \/ AppendPositive
    \/ AppendNegative
    \/ AppendPlain

SentimentSpec == SentimentInit /\ [][SentimentNext]_vars

-----------------------------------------------------------------------------
(* extract_themes on batches of entries. *)

ThemeTexts ==
    { <<>>,
      Happy,
      <<"Job", " ", "mom", " ", "sick">>,
      <<"goal", " ", "music", "\n", "rain">>,
      <<"job", " ", "job", " ", "busy">>,
      <<"sick">>,
      <<"blessed", " ", "busy", " ", "fun">> }

ThemeCall(entries) ==
    [op |-> "extract_themes", entries |-> entries, result |-> extract_themes(entries)]

ThemeInit ==
    /\ db = EmptyDb
    /\ sess = [w \in Workers |-> IdleSession]
    /\ okCalls = [u \in Users |-> 0]
    /\ shadow = EmptyDb
    /\ call = ThemeCall(<<>>)

\* the batch with one more entry
AddToBatch ==
    /\ Len(call.entries) < MaxBatch
    /\ \E text \in ThemeTexts : call' = ThemeCall(Append(call.entries, [content |-> text]))
    /\ UNCHANGED <<db, sess, okCalls, shadow>>

\* the batch without its oldest entry
DropFromBatch ==
    /\ call.entries # <<>>
    /\ call' = ThemeCall(Tail(call.entries))
    /\ UNCHANGED <<db, sess, okCalls, shadow>>

ThemeNext ==
    \/ AddToBatch
    \/ DropFromBatch

ThemeSpec == ThemeInit /\ [][ThemeNext]_vars

-----------------------------------------------------------------------------
(* generate_daily_prompts on the entries of the database.  call holds the  *)
(* answer to the last request for as long as no write has followed it.     *)

MoodEntries ==
    { [content |-> Happy, mood |-> None],
      [content |-> Happy, mood |-> Some("happy")],
      [content |-> SadDay, mood |-> Some("sad")],
      [content |-> SadDay, mood |-> Some("anxious")],
      [content |-> SadDay, mood |-> Some("frustrated")] }

\* the draws of random.sample: the same position in every list, or a mix
Picks ==
    {[category \in DOMAIN prompt_templates |-> i] : i \in 1..4}
    \cup {[category \in DOMAIN prompt_templates |->
              IF category \in {"gratitude", "memory", "creative"} THEN 2 ELSE 3]}

CreateMoodEntry ==
    /\ db.nextId <= MaxEntries
    /\ \E u \in Users, entry \in MoodEntries : db' = create_entry(db, u, entry, db.nextId).db
    /\ call' = None
    /\ UNCHANGED <<sess, okCalls, shadow>>

DeleteMoodEntry ==
    /\ \E u \in Users, entry_id \in Ids(db) : db' = delete_entry(db, u, entry_id).db
    /\ call' = None
    /\ UNCHANGED <<sess, okCalls, shadow>>

DailyPrompts ==
    /\ \E u \in Users, pick \in Picks : call' = generate_daily_prompts(db, u, pick)
    /\ UNCHANGED <<db, sess, okCalls, shadow>>

PromptNext ==
    \/ CreateMoodEntry
    \/ DeleteMoodEntry
    \/ DailyPrompts

PromptSpec == Init /\ [][PromptNext]_vars

-----------------------------------------------------------------------------
(* The analytics of emotions on the history of the database.  Each user    *)
(* has an entry; call holds the answer to the last request for as long as  *)
(* no write has followed it.                                                *)

\* Bodies of update_entry_emotions that make the history rows differ
PatternBodies ==
    { JoyBody,
      [primary |-> [emotion |-> "joy", intensity |-> 40], energy |-> 0],
      [primary |-> [emotion |-> "sad", intensity |-> 40], energy |-> -10],
      [primary |-> [emotion |-> "calm"], energy |-> 5],
      [primary |-> [intensity |-> 10], energy |-> 5] }

EmotionInit ==
    /\ db = create_entry(create_entry(EmptyDb, 1, [content |-> Happy, mood |-> None], 1).db,
                         2, [content |-> SadDay, mood |-> None], 2).db
    /\ sess = [w \in Workers |-> IdleSession]
    /\ okCalls = [u \in Users |-> 0]
    /\ shadow = EmptyDb
    /\ call = None

\* user 1 records any of the bodies on entry 1, user 2 one body on entry 2
RecordPattern ==
    /\ Len(db.history) < MaxRows
    /\ \/ \E raw \in PatternBodies : db' = update_entry_emotions(db, 1, 1, raw).db
       \/ db' = update_entry_emotions(db, 2, 2, JoyBody).db
    /\ call' = None
    /\ UNCHANGED <<sess, okCalls, shadow>>

\* The requests that read are taken once after each write: the answer to a
\* second one differs in nothing but the user and the hour.
Suggestions ==
    /\ call = None
    /\ \E u \in Users, current_hour \in 0..23 : call' = emotion_suggestions(db, u, current_hour)
    /\ UNCHANGED <<db, sess, okCalls, shadow>>

History ==
    /\ call = None
    /\ \E u \in Users : call' = emotion_history(db, u, 30)
    /\ UNCHANGED <<db, sess, okCalls, shadow>>

EmotionNext ==
    \/ RecordPattern
    \/ Suggestions
    \/ History

EmotionSpec == EmotionInit /\ [][EmotionNext]_vars

-----------------------------------------------------------------------------
(* get_writing_insights on the entries of the database.  The entries are   *)
(* written in the order of time; call holds the answer to the last request *)
(* for as long as no write has followed it.                                 *)

\* instants at the limits of the writing patterns, and one of the next day
InsightTimes == {0, 4, 5, 11, 12, 16, 17, 21, 22, 23, 29}

\* what is written at an instant
WrittenAt(now) ==
    [content |-> IF now % 3 = 0 THEN <<"Job", " ", "busy">> ELSE IF now % 3 = 1 THEN SadDay ELSE Happy,
     mood |-> None]

\* the instant of the newest entry
LastWritten(d) ==
    IF Ids(d) = {} THEN 0
    ELSE LET i == CHOOSE i \in Ids(d) : \A j \in Ids(d) : d.entries[j].created_at <= d.entries[i].created_at
         IN  d.entries[i].created_at

WriteEntry ==
    /\ db.nextId <= MaxWritten
    /\ \E u \in Users, now \in InsightTimes :
          /\ now >= LastWritten(db)
          /\ db' = create_entry(db, u, WrittenAt(now), now).db
    /\ call' = None
    /\ UNCHANGED <<sess, okCalls, shadow>>

WritingInsights ==
    /\ call = None
    /\ \E u \in Users :
          LET entries == QueryEntries(db, u)
              entry_hours == [k \in DOMAIN entries |-> HourOf(entries[k].created_at)]
          IN  \E most_common_hour \in (IF entries = <<>> THEN {0} ELSE ModeHours(entry_hours)) :
                 call' = writing_insights(db, u, most_common_hour)
    /\ UNCHANGED <<db, sess, okCalls, shadow>>

InsightNext ==
    \/ WriteEntry
    \/ WritingInsights

InsightSpec == Init /\ [][InsightNext]_vars

-----------------------------------------------------------------------------
(* Emotion suggestions over a long history: user 1 records sadness for a   *)
(* while and joy from then on, all within the last 30 days.                 *)

SadBody == [primary |-> [emotion |-> "sad", intensity |-> 40], energy |-> -10]

RecordSad ==
    /\ Len(db.history) < MaxWindow
    /\ db.history # <<>> => db.history[Len(db.history)].emotion_data.primary.emotion = "sad"
    /\ db' = update_entry_emotions(db, 1, 1, SadBody).db
    /\ call' = None
    /\ UNCHANGED <<sess, okCalls, shadow>>

RecordJoy ==
    /\ Len(db.history) < MaxWindow
    /\ db' = update_entry_emotions(db, 1, 1, JoyBody).db
    /\ call' = None
    /\ UNCHANGED <<sess, okCalls, shadow>>

\* GET /api/emotions/suggestions at night and in the morning
SuggestFromWindow ==
    /\ call = None
    /\ \E current_hour \in {3, 8} : call' = emotion_suggestions(db, 1, current_hour)
    /\ UNCHANGED <<db, sess, okCalls, shadow>>

\* GET /api/emotions/history
HistoryOfWindow ==
    /\ call = None
    /\ call' = emotion_history(db, 1, 30)
    /\ UNCHANGED <<db, sess, okCalls, shadow>>

WindowNext ==
    \/ RecordSad
    \/ RecordJoy
    \/ SuggestFromWindow
    \/ HistoryOfWindow

WindowSpec == EmotionInit /\ [][WindowNext]_vars

-----------------------------------------------------------------------------
(* GET /api/stats on the entries of the database, written in the order of  *)
(* time over three days.                                                    *)

\* two instants on each of the days 0, 1 and 2
StatTimes == {1, 23, 25, 47, 49, 71}

WriteOnDay ==
    /\ db.nextId <= MaxWritten
    /\ \E u \in Users, now \in StatTimes :
          /\ now >= LastWritten(db)
          /\ db' = create_entry(db, u, WrittenAt(now), now).db
    /\ call' = None
    /\ UNCHANGED <<sess, okCalls, shadow>>

Stats ==
    /\ call = None
    /\ \E u \in Users, now \in StatTimes :
          /\ now >= LastWritten(db)
          /\ call' = get_user_stats(db, u, now)
    /\ UNCHANGED <<db, sess, okCalls, shadow>>

StatsNext ==
    \/ WriteOnDay
    \/ Stats

StatsSpec == Init /\ [][StatsNext]_vars

-----------------------------------------------------------------------------
(* Properties of update_entry_emotions, the request served step by step    *)
(* (StepSpec).                                                              *)

Requested(w) == sess[w].body # None
Answered(w, status) == sess[w].pc = "done" /\ sess[w].status = status
IntensityInRange(record) == record.primary.intensity >= 0 /\ record.primary.intensity <= 100
EnergyInRange(energy) == energy >= -50 /\ energy <= 50
NotOwnedBy(d, u, entry_id) == entry_id \notin Ids(d) \/ d.entries[entry_id].user_id # u

\* The step is a step of worker w's request.
StepOf(w) == sess'[w] # sess[w]

\* C1: a request whose primary intensity is outside [0,100] is rejected before
\* any persistence, whatever its energy: it is never answered 200, no entry's
\* snapshot holds such an intensity and no history row does.
C1_IntensityRejected ==
    /\ \A w \in Workers :
          Requested(w) /\ ~IntensityInRange(sess[w].body[1]) => sess[w].status # 200
    /\ \A i \in Ids(db) :
          db.entries[i].emotions # None => IntensityInRange(db.entries[i].emotions[1])
    /\ \A k \in 1..Len(db.history) : IntensityInRange(db.history[k].emotion_data)

\* C2: a request for an entry that does not exist or belongs to another user is
\* answered 404 by the ownership lookup, which changes nothing in either table;
\* a request answered 404 has staged nothing and commits nothing afterwards.
C2_NotFoundNoPersistence ==
    /\ [][\A w \in Workers :
            Lookup(w) /\ NotOwnedBy(db, sess[w].user, sess[w].entry_id)
                => /\ sess'[w].pc = "done"
                   /\ sess'[w].status = 404
                   /\ db' = db]_vars
    /\ [][\A w \in Workers : sess[w].status = 404 => sess'[w] = sess[w]]_vars
    /\ [](\A w \in Workers :
            sess[w].status = 404
                => sess[w].pc = "done" /\ sess[w].staged = None /\ sess[w].pending = <<>>)

\* C2's case: user 1's request for the entry of user 2 was answered 404.
C2_Witness ==
    \E w \in Workers :
        /\ Answered(w, 404)
        /\ sess[w].entry_id \in Ids(db)
        /\ db.entries[sess[w].entry_id].user_id # sess[w].user
        /\ db = Populated

C4_Atomic ==
    [][/\ db'.history # db.history
            => \E w \in Workers :
                  /\ StepOf(w) /\ sess'[w].status = 200
                  /\ db'.history = Append(db.history,
                        EmotionHistory(sess[w].user, sess[w].entry_id, sess[w].data[1]))
                  /\ db'.entries[sess[w].entry_id].emotions = sess[w].data
                  /\ db'.entries[sess[w].entry_id].energy_level = Some(sess[w].data[1].energy)
       /\ \A i \in Ids(db) \cap Ids(db') :
             \/ db'.entries[i].emotions # db.entries[i].emotions
             \/ db'.entries[i].energy_level # db.entries[i].energy_level
             => Len(db'.history) = Len(db.history) + 1
       /\ \A w \in Workers : StepOf(w) /\ sess'[w].status # 200 => db' = db]_vars

\* C4's case: a request that had been validated failed before its commit; the
\* entry it addressed keeps the earlier snapshot and the history has no new row.
C4_Witness ==
    \E w \in Workers :
        /\ Answered(w, 500)
        /\ sess[w].entry_id \in Ids(db)
        /\ sess[w].data # db.entries[sess[w].entry_id].emotions
        /\ db.entries[sess[w].entry_id].emotions # None
        /\ db.history = Populated.history

\* C7: a request whose energy is outside [-50,50] is answered 422 as it
\* arrives, with no record accepted (nothing is clamped), and the step changes
\* nothing; no entry and no history row holds an energy outside the range.
C7_EnergyRejected ==
    /\ [](\A w \in Workers :
            Requested(w) /\ ~EnergyInRange(sess[w].body[1].energy)
                => Answered(w, 422) /\ sess[w].data = None)
    /\ [](\A i \in Ids(db) :
            db.entries[i].energy_level # None => EnergyInRange(db.entries[i].energy_level[1]))
    /\ [](\A k \in 1..Len(db.history) : EnergyInRange(db.history[k].emotion_data.energy))
    /\ [][\A w \in Workers : StepOf(w) /\ sess'[w].status = 422 => db' = db]_vars

\* C7's case: a request with energy 60 was answered 422.
C7_Witness ==
    \E w \in Workers : Answered(w, 422) /\ sess[w].body[1].energy = 60


-----------------------------------------------------------------------------
(* Two interleaved requests (ConcSpec).                                     *)

\* C6: once two requests of one user for the same entry have both committed,
\* the history holds one new row per request, carrying its record, and the
\* entry's emotions together with its energy_level are the record of one of
\* the two requests, never emotions of one and energy_level of the other.
C6_LastWriteWins ==
    \A w1, w2 \in Workers :
        /\ w1 # w2
        /\ Answered(w1, 200) /\ Answered(w2, 200)
        /\ sess[w1].user = sess[w2].user
        /\ sess[w1].entry_id = sess[w2].entry_id
        => LET E == sess[w1].entry_id
               added == SubSeq(db.history, Len(Populated.history) + 1, Len(db.history))
           IN  /\ Len(added) = 2
               /\ \E k \in 1..2 :
                     /\ added[k].emotion_data = sess[w1].data[1]
                     /\ added[3 - k].emotion_data = sess[w2].data[1]
               /\ \E w \in {w1, w2} :
                     /\ db.entries[E].emotions = sess[w].data
                     /\ db.entries[E].energy_level = Some(sess[w].data[1].energy)

-----------------------------------------------------------------------------
(* Properties of all handlers, each request served in one step (Spec).      *)

HistoryOf(d, u) == SelectSeq(d.history, LAMBDA row : row.user_id = u)

EmotionFields(e) == <<e.emotions, e.energy_level>>

-----------------------------------------------------------------------------
(* The entry handlers (EntrySpec).                                          *)

\* C10: every stored entry's word_count is the number of whitespace-separated
\* tokens of its content.
C10_WordCount ==
    \A i \in Ids(db) : db.entries[i].word_count = Len(split(db.entries[i].content))


-----------------------------------------------------------------------------
(* Isolation of the two users (IsoSpec).                                    *)

\* The database after each request user u can send in database d
RequestsOf(d, u) ==
    { create_entry(d, u, entry, d.nextId) : entry \in NewEntries }
        \cup { update_entry(d, u, i, b) : i \in 1..MaxEntries, b \in UpdateBodies }
        \cup { delete_entry(d, u, i) : i \in 1..MaxEntries }
        \cup { analyze_entry(d, u, i) : i \in 1..MaxEntries }
        \cup { update_entry_emotions(d, u, i, raw) : i \in 1..MaxEntries, raw \in RawBodies }

\* The status of each request by which user u can address entry i
StatusesAt(d, u, i) ==
    { update_entry(d, u, i, b).status : b \in UpdateBodies }
        \cup { delete_entry(d, u, i).status, analyze_entry(d, u, i).status,
               get_entry(d, u, i).status, get_reflection(d, u, i).status }
        \cup { update_entry_emotions(d, u, i, raw).status :
                  raw \in {r \in RawBodies : EnergyInRange(r.energy)} }

WithoutId(row) == [f \in DOMAIN row \ {"id"} |-> row[f]]
WithoutIds(rows) == [k \in 1..Len(rows) |-> WithoutId(rows[k])]
RecordsOf(rows) == [k \in 1..Len(rows) |-> rows[k].emotion_data]

\* No request of user A changes what user B's queries return.
NoWriteAcross ==
    \A r \in RequestsOf(db, UserA) :
        /\ QueryEntries(r.db, UserB) = QueryEntries(db, UserB)
        /\ QueryHistory(r.db, UserB) = QueryHistory(db, UserB)

\* Every request of user A for an entry of user B is answered 404.
NotFoundAcross ==
    \A i \in Ids(db) : db.entries[i].user_id = UserB => StatusesAt(db, UserA, i) = {404}

\* C9 as stated: no request of user A creates, changes or deletes an entry or
\* history row of user B, every request of A for an entry of B is answered
\* 404, and what B reads (the entry listing, and the entries and history rows
\* its analytics are computed from) is what B reads in the run without A's
\* requests.
C9_Isolated ==
    /\ NoWriteAcross
    /\ NotFoundAcross
    /\ get_entries(db, UserB).body = get_entries(shadow, UserB).body
    /\ QueryEntries(db, UserB) = QueryEntries(shadow, UserB)
    /\ RecordsOf(QueryHistory(db, UserB)) = RecordsOf(QueryHistory(shadow, UserB))

\* C9, amended: as stated, except that the entries B reads are those of the
\* run without A's requests up to their ids, which come from a sequence the
\* users share.
C9_IsolatedUpToIds ==
    /\ NoWriteAcross
    /\ NotFoundAcross
    /\ WithoutIds(get_entries(db, UserB).body) = WithoutIds(get_entries(shadow, UserB).body)
    /\ WithoutIds(QueryEntries(db, UserB)) = WithoutIds(QueryEntries(shadow, UserB))
    /\ RecordsOf(QueryHistory(db, UserB)) = RecordsOf(QueryHistory(shadow, UserB))

\* C9's case: A created an entry before B did, so that B's entry has another
\* id than in the run without A, and both have recorded or analysed since.
C9_Witness ==
    /\ \E i \in Ids(db) : db.entries[i].user_id = UserA /\ db.entries[i].mood_score # None
    /\ \E i \in Ids(db), j \in Ids(shadow) :
          /\ i # j
          /\ db.entries[i].user_id = UserB
          /\ db.entries[i].created_at = shadow.entries[j].created_at
          /\ db.entries[i].emotions # None
          /\ shadow.entries[j].emotions = db.entries[i].emotions


-----------------------------------------------------------------------------
(* analyze_sentiment (SentimentSpec).  Scores are in hundredths.            *)

\* C11 as stated: the score returned lies strictly between -1 and 1; for a
\* text with no tokens it is 0 and the primary emotion is neutral.
C11_ScoreStrictlyInside ==
    /\ call.result.sentiment_score > -100 /\ call.result.sentiment_score < 100
    /\ call.tally.total_words = 0
          => call.result.sentiment_score = 0 /\ call.result.primary_emotion = "neutral"

\* C11, amended: the score returned lies between -1 and 1, the limits
\* included; it is -1 or 1 only for a text with 200 or more words that
\* contain a keyword; for a text with no tokens it is 0 and the primary
\* emotion is neutral.
C11_ScoreInside ==
    /\ call.result.sentiment_score >= -100 /\ call.result.sentiment_score <= 100
    /\ call.result.sentiment_score \in {-100, 100}
          => call.tally.positive_count + call.tally.negative_count >= 200
    /\ call.tally.total_words = 0
          => call.result.sentiment_score = 0 /\ call.result.primary_emotion = "neutral"

\* C11's case: a text of 200 words, each with a positive keyword, scores 1.
C11_Witness ==
    /\ call.tally.positive_count = 200
    /\ call.tally.negative_count = 0
    /\ call.result.sentiment_score = 100

\* C12: the labels agree with the score returned: positive/content exactly
\* when it is above 0.3, negative/concerned exactly when it is below -0.3,
\* neutral/reflective otherwise.
C12_LabelsAgree ==
    LET r == call.result
    IN  /\ r.primary_emotion = "positive" <=> r.sentiment_score > 30
        /\ r.primary_emotion = "negative" <=> r.sentiment_score < -30
        /\ r.primary_emotion \in {"positive", "negative", "neutral"}
        /\ r.secondary_emotion = CASE r.primary_emotion = "positive" -> "content"
                                   [] r.primary_emotion = "negative" -> "concerned"
                                   [] OTHER -> "reflective"


-----------------------------------------------------------------------------
(* extract_themes (ThemeSpec).  Percentages are in tenths.                  *)

RECURSIVE SumPercentages(_)
SumPercentages(rows) ==
    IF rows = <<>> THEN 0 ELSE Head(rows).percentage + SumPercentages(Tail(rows))

\* the hits of all themes matched in the batch and of those returned
AllHits == SumCounts(ThemeCounts(call.entries))
ShownHits == SumCounts(call.result)
Matched == Len(ThemeCounts(call.entries))

\* C13 as stated: at most 5 themes; the percentages sum to at most 100 and,
\* when the result is not empty, to exactly 100, both up to the rounding of
\* each percentage (0.05 a theme); no hit or no entry gives the empty list.
C13_PercentagesSumTo100 ==
    LET rows == call.result
    IN  /\ Len(rows) <= 5
        /\ 2 * (SumPercentages(rows) - 1000) <= Len(rows)
        /\ rows # <<>> => 2 * (1000 - SumPercentages(rows)) <= Len(rows)
        /\ AllHits = 0 => rows = <<>>

\* C13, amended: the themes returned are the 5 most frequent of the matched
\* ones (all of them when 5 or fewer are matched); each percentage is the
\* theme's share of the hits of ALL matched themes, so the percentages sum,
\* up to rounding, to the share the returned themes have in all hits: 100
\* when at most 5 themes are matched, less when more are; no hit or no
\* entry gives the empty list.
C13_PercentagesOfAllHits ==
    LET rows == call.result
        sum == SumPercentages(rows)
    IN  /\ Len(rows) = (IF Matched < 5 THEN Matched ELSE 5)
        /\ \A i \in DOMAIN rows : \A j \in DOMAIN rows : i < j => rows[i].count >= rows[j].count
        /\ 2 * Abs(sum * AllHits - 1000 * ShownHits) <= Len(rows) * AllHits
        /\ Matched <= 5 => ShownHits = AllHits
        /\ Matched > 5 => ShownHits < AllHits
        /\ AllHits = 0 => rows = <<>>

\* C13's case: more than 5 themes matched, 5 returned, summing to less than 100
C13_Witness ==
    /\ Matched > 5
    /\ Len(call.result) = 5
    /\ SumPercentages(call.result) < 1000


-----------------------------------------------------------------------------
(* generate_daily_prompts (PromptSpec) *)

Prompted == call # None /\ call.op = "generate_daily_prompts"

\* a prompt of the answer has its text from the list of the category
FromList(category) ==
    \E i \in DOMAIN call.result : \E k \in DOMAIN prompt_templates[category] :
        call.result[i].text = prompt_templates[category][k]

\* the entries of the asking user that carry a mood, and the negative ones
Tagged == {i \in Ids(db) : db.entries[i].user_id = call.user /\ db.entries[i].mood # None}
NegativeTagged == {i \in Tagged : db.entries[i].mood \in {Some("sad"), Some("frustrated"), Some("anxious")}}

\* C14: generate_daily_prompts terminates (the loop that fills up to 4 has
\* nothing to do) and returns exactly 4 prompts with pairwise distinct
\* texts and ids 1,2,3,4 in the order of the output, whatever the moods.
C14_FourDistinctPrompts ==
    Prompted =>
        /\ Len(call.selected_prompts) >= 4
        /\ Len(call.result) = 4
        /\ \A i \in 1..4 : call.result[i].id = i
        /\ \A i \in 1..4 : \A j \in 1..4 : i # j => call.result[i].text # call.result[j].text

\* C14's case: a user with a majority of negative moods, 6 prompts selected, 4 returned
C14_Witness ==
    /\ Prompted
    /\ 2 * Cardinality(NegativeTagged) > Cardinality(Tagged)
    /\ Len(call.selected_prompts) = 6
    /\ Len(call.result) = 4

\* C15: the prompts returned include one from each of the memory,
\* mindfulness, creative and relationships lists, also when the rule for
\* negative moods fires.
C15_FourCategories ==
    Prompted =>
        \A category \in {"memory", "mindfulness", "creative", "relationships"} : FromList(category)

\* C16: the answer has a prompt from the gratitude list and one from the
\* growth list exactly when the entries tagged sad, frustrated or anxious
\* are strictly more than half of the user's mood-tagged entries.
C16_NegativeMajority ==
    Prompted =>
        /\ FromList("gratitude") <=> 2 * Cardinality(NegativeTagged) > Cardinality(Tagged)
        /\ FromList("growth") <=> 2 * Cardinality(NegativeTagged) > Cardinality(Tagged)

\* C16's case: the only mood-tagged entry of the user is negative, the rule fires
C16_Witness ==
    /\ Prompted
    /\ Cardinality(Tagged) = 1
    /\ Cardinality(NegativeTagged) = 1
    /\ FromList("gratitude")
    /\ FromList("growth")


-----------------------------------------------------------------------------
(* Emotion suggestions and history patterns (EmotionSpec).  Averages are   *)
(* in tenths.                                                               *)

Suggested == call # None /\ call.op = "get_emotion_suggestions"
Analysed == call # None /\ call.op = "get_emotion_history"

Suggests(emotion, intensity) ==
    \E i \in DOMAIN call.result :
        call.result[i].emotion = emotion /\ call.result[i].intensity = intensity

\* the history rows of the asking user, and those that carry a primary emotion
Mine == {k \in DOMAIN db.history : db.history[k].user_id = call.user}
Carrying == {k \in Mine : HasEmotion(db.history[k])}
Feeling(emotion) == {k \in Carrying : db.history[k].emotion_data.primary.emotion = emotion}
Felt == {db.history[k].emotion_data.primary.emotion : k \in Carrying}

RECURSIVE SumOf(_)
SumOf(S) ==
    IF S = {} THEN 0
    ELSE LET k == CHOOSE k \in S : TRUE
         IN  IntensityOf(db.history[k]) + SumOf(S \ {k})

\* C17: optimistic/70 is suggested exactly when 6 <= h < 10, reflective/60
\* exactly when 17 <= h <= 21, and at no other hour is there a time-based
\* suggestion (none at h = 10).
C17_TimeBasedHours ==
    Suggested =>
        /\ Suggests("optimistic", 70) <=> (6 <= call.current_hour /\ call.current_hour < 10)
        /\ Suggests("reflective", 60) <=> (17 <= call.current_hour /\ call.current_hour <= 21)

\* the answers that are a time-based suggestion, if any, followed by the
\* suggestion of an emotion of maximal frequency, if the history has one:
\* or the three defaults when there is neither
TimeOptions ==
    { <<>>,
      <<[emotion |-> "optimistic", intensity |-> 70]>>,
      <<[emotion |-> "reflective", intensity |-> 60]>> }

FrequencyOptions ==
    IF Felt = {} THEN { <<>> }
    ELSE { <<[emotion |-> e, intensity |-> 50]>> :
             e \in {e \in Felt : \A f \in Felt : Cardinality(Feeling(f)) <= Cardinality(Feeling(e))} }

ThreeDefaults ==
    <<[emotion |-> "content", intensity |-> 60],
      [emotion |-> "curious", intensity |-> 50],
      [emotion |-> "grateful", intensity |-> 70]>>

\* C18: the answer is the time-based suggestion (if any), then the
\* frequency-based one (if any), cut to 3; the three defaults content/60,
\* curious/50, grateful/70 exactly when there is neither; so it has 1 to 3
\* elements, each with an intensity in 0..100.
C18_SuggestionsComposed ==
    Suggested =>
        LET answer == [i \in DOMAIN call.result |->
                          [emotion |-> call.result[i].emotion, intensity |-> call.result[i].intensity]]
        IN  /\ \E t \in TimeOptions, f \in FrequencyOptions :
                 answer = (IF t \o f = <<>> THEN ThreeDefaults ELSE Take(t \o f, 3))
            /\ answer = ThreeDefaults <=> (Felt = {} /\ TimeBased(call.current_hour) = <<>>)
            /\ Len(answer) \in 1..3
            /\ \A i \in DOMAIN answer : answer[i].intensity \in 0..100

\* C18's case: a time-based suggestion followed by the most frequent emotion
C18_Witness ==
    /\ Suggested
    /\ Len(call.result) = 2
    /\ call.result[1].emotion = "reflective"
    /\ call.result[2].emotion = "joy"
    /\ Cardinality(Feeling("joy")) = 2
    /\ Cardinality(Feeling("sad")) = 1

RECURSIVE SumFrequencies(_)
SumFrequencies(patterns) ==
    IF patterns = <<>> THEN 0 ELSE Head(patterns).frequency + SumFrequencies(Tail(patterns))

\* C19: one pattern for each primary emotion of the user's history rows,
\* with the number of its rows as frequency, the mean of their intensities
\* rounded to one decimal as avg_intensity and the trend 'stable'; the
\* patterns are in order of non-increasing frequency, and the frequencies
\* sum to the number of rows that carry a primary emotion.
C19_Patterns ==
    Analysed =>
        LET patterns == call.result.patterns
        IN  /\ Len(patterns) = Cardinality(Felt)
            /\ \A e \in Felt : \E i \in DOMAIN patterns :
                 /\ patterns[i].emotion = e
                 /\ patterns[i].frequency = Cardinality(Feeling(e))
                 /\ 2 * Abs(10 * SumOf(Feeling(e)) - patterns[i].avg_intensity * Cardinality(Feeling(e)))
                       <= Cardinality(Feeling(e))
                 /\ patterns[i].trend = "stable"
            /\ \A i \in DOMAIN patterns : \A j \in DOMAIN patterns :
                 i < j => patterns[i].frequency >= patterns[j].frequency
            /\ SumFrequencies(patterns) = Cardinality(Carrying)

\* C19's case: two emotions, the one seen later in the rows is the more
\* frequent, and a row without a primary emotion
C19_Witness ==
    /\ Analysed
    /\ Len(call.result.patterns) = 2
    /\ call.result.patterns[1].frequency = 2
    /\ call.result.patterns[2].frequency = 1
    /\ HasEmotion(db.history[Len(db.history)])
    /\ db.history[Len(db.history)].emotion_data.primary.emotion = call.result.patterns[2].emotion

\* C20: for a user without history rows the answer has no patterns, no
\* recent emotions and the onboarding message as its only insight.
C20_EmptyHistory ==
    (Analysed /\ Mine = {}) =>
        /\ call.result.patterns = <<>>
        /\ call.result.recent_emotions = <<>>
        /\ Len(call.result.insights) = 1
        /\ call.result.insights[1].text = "Start tracking your emotions to see patterns and insights!"

\* C20's case: the user who asks has no row, the other one has
C20_Witness ==
    /\ Analysed
    /\ Mine = {}
    /\ db.history # <<>>
    /\ Len(call.result.insights) = 1


-----------------------------------------------------------------------------
(* get_writing_insights (InsightSpec) *)

Insighted == call # None /\ call.op = "get_writing_insights"

\* the entries of the asking user, and those written at an hour of the day
Own == {i \in Ids(db) : db.entries[i].user_id = call.user}
WrittenInHour(h) == {i \in Own : db.entries[i].created_at % 24 = h}

\* C21: for a user without entries the insights are total_entries 0, no
\* themes, average_sentiment 0 and the writing pattern 'No data yet'; for a
\* user with entries total_entries is the number of the user's entries.
C21_InsightsTotals ==
    Insighted =>
        /\ Own = {} =>
              /\ call.result.total_entries = 0
              /\ call.result.themes = <<>>
              /\ call.result.average_sentiment = 0
              /\ call.result.writing_pattern = "No data yet"
        /\ Own # {} => call.result.total_entries = Cardinality(Own)

\* C21's case: the user who asks has no entry, the other one has
C21_Witness ==
    /\ Insighted
    /\ Own = {}
    /\ Ids(db) # {}
    /\ call.result.writing_pattern = "No data yet"

\* C26: for a user with entries most_active_hour is an hour of the day at
\* which the most of the user's entries were written, and the writing
\* pattern follows from it: morning writer for 5..11, afternoon reflector
\* for 12..16, evening journalist for 17..21, night owl for 22..23 and 0..4.
C26_ActiveHour ==
    (Insighted /\ Own # {}) =>
        LET h == call.result.most_active_hour
        IN  /\ WrittenInHour(h) # {}
            /\ \A g \in 0..23 : Cardinality(WrittenInHour(g)) <= Cardinality(WrittenInHour(h))
            /\ call.result.writing_pattern =
                  CASE h \in 5..11 -> "morning writer"
                    [] h \in 12..16 -> "afternoon reflector"
                    [] h \in 17..21 -> "evening journalist"
                    [] h \in 22..23 \cup 0..4 -> "night owl"

\* C26's case: two entries at the same hour of different days and one at
\* another hour
C26_Witness ==
    /\ Insighted
    /\ Cardinality(Own) = 3
    /\ call.result.most_active_hour = 5
    /\ Cardinality(WrittenInHour(5)) = 2
    /\ \E i \in Own : db.entries[i].created_at = 29
    /\ call.result.writing_pattern = "morning writer"


-----------------------------------------------------------------------------
(* More properties of update_entry_emotions served step by step (StepSpec). *)

\* C22: the history row a request adds has in its context the id of the
\* entry the request updated, as entry_id, and the server's timestamp,
\* whatever context the caller sent, also one with the keys entry_id or
\* timestamp.
C22_ContextNamesEntry ==
    [][\A w \in Workers :
          StepOf(w) /\ sess'[w].status = 200
              => LET row == db'.history[Len(db'.history)]
                 IN  /\ row.context.entry_id = sess[w].entry_id
                     /\ row.context.timestamp = "utcnow"]_vars


\* the columns of an entry that update_entry_emotions does not assign
KeptColumns == {"user_id", "content", "mood", "mood_score", "word_count", "created_at"}

\* C23: the step that answers a request 200 changes, of the entry it names,
\* the emotions and the energy_level only, leaves every other entry and
\* every earlier history row as they are and adds one row; a request for
\* an entry of the caller is found and committed whatever the entry holds,
\* a legacy mood or an earlier snapshot included.
C23_FrameOfRecord ==
    [][\A w \in Workers :
          /\ StepOf(w) /\ sess'[w].status = 200
                => LET E == sess[w].entry_id
                   IN  /\ \A column \in KeptColumns : db'.entries[E][column] = db.entries[E][column]
                       /\ Ids(db') = Ids(db)
                       /\ \A i \in Ids(db) \ {E} : db'.entries[i] = db.entries[i]
                       /\ Len(db'.history) = Len(db.history) + 1
                       /\ SubSeq(db'.history, 1, Len(db.history)) = db.history
          /\ Lookup(w) /\ ~NotOwnedBy(db, sess[w].user, sess[w].entry_id)
                => sess'[w].pc = "found"
          /\ Commit(w) /\ sess[w].entry_id \in Ids(db)
                => sess'[w].status = 200]_vars

\* C23's case: the entry had a snapshot, its content and legacy mood were
\* changed by another request while this one was being served, and the
\* request replaced the snapshot and left content and mood as they were
C23_Witness ==
    \E w \in Workers :
        /\ Answered(w, 200)
        /\ sess[w].entry_id = 1
        /\ 1 \in Ids(db)
        /\ db.entries[1].mood = Some("sad")
        /\ db.entries[1].content = SadDay
        /\ db.entries[1].emotions = sess[w].data
        /\ sess[w].data[1].primary.emotion = "calm"
        /\ Len(db.history) = Len(Populated.history) + 1


-----------------------------------------------------------------------------
(* Emotion suggestions over a long history (WindowSpec) *)

\* C24: whenever a row of the user's last 30 days carries a primary
\* emotion, the answer has the frequency-based suggestion: a most frequent
\* primary emotion of all those rows, however many, with intensity 50.
C24_ModeOfWindow ==
    (Suggested /\ Felt # {}) =>
        \E f \in FrequencyOptions : \E i \in DOMAIN call.result :
            /\ call.result[i].emotion = f[1].emotion
            /\ call.result[i].intensity = 50


-----------------------------------------------------------------------------
(* More properties of extract_themes (ThemeSpec) *)

\* the place of a theme in the fixed order of the categories
PlaceOf(title) == CHOOSE k \in DOMAIN theme_names : Title(theme_names[k]) = title

\* a theme with its count comes before another: more hits, or as many and
\* earlier in the order of the categories
Before(a, b) ==
    \/ a.count > b.count
    \/ a.count = b.count /\ PlaceOf(a.theme) < PlaceOf(b.theme)

\* the matched themes with their counts, under the names returned
MatchedThemes ==
    LET counts == ThemeCounts(call.entries)
    IN  {[theme |-> Title(counts[k].theme), count |-> counts[k].count] : k \in DOMAIN counts}

\* C25: the themes returned are the first 5 (or fewer) of the categories
\* with a hit, in order of descending count, equal counts in the order
\* work, relationships, health, personal_growth, creativity, nature,
\* gratitude, stress, leisure; none has count 0.
C25_TopFiveInOrder ==
    LET rows == call.result
        shown == {[theme |-> rows[i].theme, count |-> rows[i].count] : i \in DOMAIN rows}
    IN  /\ Len(rows) = (IF Cardinality(MatchedThemes) < 5 THEN Cardinality(MatchedThemes) ELSE 5)
        /\ shown \subseteq MatchedThemes
        /\ \A i \in DOMAIN rows : rows[i].count > 0
        /\ \A i \in DOMAIN rows : \A j \in DOMAIN rows :
              i < j => Before(rows[i], rows[j])
        /\ \A a \in shown : \A b \in MatchedThemes \ shown : Before(a, b)

\* C25's case: seven categories matched, one ahead and the others with
\* equal counts, of which the first four in the order of the categories
\* are returned
C25_Witness ==
    /\ Cardinality(MatchedThemes) = 7
    /\ Len(call.result) = 5
    /\ call.result[1].count > call.result[2].count
    /\ call.result[2].count = call.result[5].count
    /\ call.result[1].theme = "Work"
    /\ call.result[5].theme = "Creativity"


-----------------------------------------------------------------------------
(* More properties of generate_daily_prompts (PromptSpec) *)

\* C28: the category of each prompt returned is the name of the template
\* list that holds its text.
C28_CategoryNamesList ==
    Prompted =>
        \A i \in DOMAIN call.result :
            \E k \in DOMAIN prompt_templates[call.result[i].category] :
                prompt_templates[call.result[i].category][k] = call.result[i].text

-----------------------------------------------------------------------------
(* More properties of interleaved requests (ConcSpec) *)

\* C29: in every reachable state each entry has emotions null exactly
\* when energy_level is null, and otherwise energy_level is the energy of
\* the emotions snapshot and lies in -50..50.
C29_SnapshotAndEnergy ==
    \A i \in Ids(db) :
        /\ db.entries[i].emotions = None <=> db.entries[i].energy_level = None
        /\ db.entries[i].emotions # None =>
              /\ db.entries[i].energy_level = Some(db.entries[i].emotions[1].energy)
              /\ EnergyInRange(db.entries[i].energy_level[1])


-----------------------------------------------------------------------------
(* GET /api/stats (StatsSpec) *)

Counted == call # None /\ call.op = "get_user_stats"

\* the days on which the asking user wrote
DaysWritten == {db.entries[i].created_at \div 24 : i \in {i \in Ids(db) : db.entries[i].user_id = call.user}}

\* the number of consecutive days, ending today, each in DaysWritten
DaysInARow(today) ==
    Cardinality({n \in 1..(today + 1) : \A k \in 0..(n - 1) : today - k \in DaysWritten})

\* C30: current_streak is the number of consecutive calendar days ending
\* today on each of which the user has an entry, also with several entries
\* on a day; it is 0 when the user has no entry today.
C30_StreakOfDays ==
    Counted =>
        /\ call.result.current_streak = DaysInARow(call.now \div 24)
        /\ (call.now \div 24) \notin DaysWritten => call.result.current_streak = 0

====
